---- MODULE Spec2Model ----
(***************************************************************************)
(* A model of src/src/core/cache.js: the Cache engine (getItem, setItem,   *)
(* removeItem, clear, _purge, _addItem, _isExpired), the two storage       *)
(* backends (Cache.Basic, Cache.LocalStorage) and the timer queue that     *)
(* setTimeout(..., 0) feeds.                                               *)
(*                                                                         *)
(* JavaScript values are modelled by records [tag, n]: undefined, a        *)
(* number, or a Date object.  Cached values are strings; "" is the falsy   *)
(* one.  One handler is one action; every clock read of one handler        *)
(* returns the same value of now.                                          *)
(***************************************************************************)
EXTENDS Integers, Sequences, FiniteSets, TLC

VARIABLES
  storageKind,  \* which backend this._storage is: "Basic" or "LocalStorage"
  maxSizeArg,   \* the maxSize argument of the constructor
  maxSize,      \* this._maxSize
  store,        \* the backend's records, in the order keys() enumerates them
  count,        \* Cache.Basic's _count
  hits,         \* this._stats['hits']
  misses,       \* this._stats['misses']
  tasks,        \* the timer queue: tasks scheduled by setTimeout(f, 0)
  now,          \* new Date().getTime()
  sharedOpts,   \* an options object the caller keeps and may pass again
  calls,        \* number of getItem calls made
  nops,         \* number of calls the callers made
  lastOp        \* what the last call or task did

vars == <<storageKind, maxSizeArg, maxSize, store, count, hits, misses,
          tasks, now, sharedOpts, calls, nops, lastOp>>

----------------------------------------------------------------------------
\* Bounds of the model.
MaxOps == 3
MaxTicks == 2

\* Cache.Priority
Low == 1
Normal == 2
High == 3

\* this._fillFactor = .75, as the fraction FillNum / FillDen
FillNum == 3
FillDen == 4

\* expirationSliding is in seconds, the clock in milliseconds
MsPerSecond == 1000

StartTime == MsPerSecond
TickMs == MsPerSecond
MaxTime == StartTime + MaxTicks * TickMs

----------------------------------------------------------------------------
\* JavaScript values of the option fields.
Undef == [tag |-> "undefined", n |-> 0]
Num(n) == [tag |-> "number", n |-> n]
DateObj(t) == [tag |-> "Date", n |-> t]

\* ToBoolean: undefined and 0 are falsy, an object is truthy.
Truthy(x) ==
  CASE x.tag = "undefined" -> FALSE
    [] x.tag = "number" -> x.n # 0
    [] OTHER -> TRUE

\* ToBoolean of a string: only "" is falsy.
TruthyStr(s) == s # ""

\* The results a call hands back that are not cached values.
Null == "null"
Undefined == "undefined"

\* Own or inherited: the names every plain object inherits from
\* Object.prototype, which this._items[key] finds although they were never set.
ProtoKeys == {"toString"}

\* The key argument null.  The other keys are strings.
NullKey == "(null)"

\* ToBoolean of a key: "" and null are falsy.
TruthyKey(key) == key \notin {"", NullKey}

\* The property name a key selects: this._items[key] and this._prefix + key
\* turn null into the string "null".
ToPropertyKey(key) == IF key = NullKey THEN "null" ELSE key

NoOptions == [expirationAbsolute |-> Undef, expirationSliding |-> Undef,
              priority |-> Undef, callback |-> FALSE]

\* JSON.parse(JSON.stringify(item)): a function-valued property is dropped,
\* undefined properties stay undefined, numbers and strings survive.
JsonCopy(item) ==
  [item EXCEPT !.options.callback = FALSE]

----------------------------------------------------------------------------
\* Sequence helpers.
RECURSIVE IndexOf(_, _, _)
IndexOf(s, key, i) ==
  IF i > Len(s) THEN 0
  ELSE IF s[i].key = key THEN i
  ELSE IndexOf(s, key, i + 1)

RemoveAt(s, i) == SubSeq(s, 1, i - 1) \o SubSeq(s, i + 1, Len(s))

Perms(n) == {p \in [1..n -> 1..n] : \A i, j \in 1..n : i # j => p[i] # p[j]}

Permute(s, p) == [i \in 1..Len(s) |-> s[p[i]]]

\* The element of a one-element set.
The(S) == CHOOSE x \in S : TRUE

----------------------------------------------------------------------------
\* The storage backends.  A backend state is st = [store, count].
\* "LocalStorage" is an object with the methods of Cache.LocalStorage.prototype
\* and a _prefix (the constructor itself reads this.prefix_, which is never
\* set, before it returns); its records are JSON copies.

\* Cache.Basic.prototype.get / Cache.LocalStorage.prototype.get.
\* The result is [tag, item]: tag "item" with the record, "function" for an
\* inherited member of Object.prototype, "undefined" or "null" when absent.
NoItem == [key |-> "", value |-> "", options |-> NoOptions, lastAccessed |-> 0]

StorageGet(kind, st, key) ==
  LET i == IndexOf(st.store, ToPropertyKey(key), 1) IN
  IF kind = "Basic"
  THEN IF i > 0 THEN [tag |-> "item", item |-> st.store[i]]
       ELSE IF ToPropertyKey(key) \in ProtoKeys THEN [tag |-> "function", item |-> NoItem]
       ELSE [tag |-> "undefined", item |-> NoItem]
  ELSE IF i > 0 THEN [tag |-> "item", item |-> JsonCopy(st.store[i])]
       ELSE [tag |-> "null", item |-> NoItem]

\* item != null
NotNull(g) == g.tag \in {"item", "function"}

\* Cache.Basic.prototype.set / Cache.LocalStorage.prototype.set (the
\* assignment that succeeded).
StorageSet(kind, st, item) ==
  LET i == IndexOf(st.store, ToPropertyKey(item.key), 1)
      rec == IF kind = "Basic" THEN item ELSE JsonCopy(item)
      g == StorageGet(kind, st, item.key) IN
  [store |-> IF i > 0 THEN [st.store EXCEPT ![i] = rec]
             ELSE Append(st.store, rec),
   count |-> IF kind = "Basic" /\ g.tag = "undefined"
             THEN st.count + 1 ELSE st.count]

\* Cache.Basic.prototype.remove / Cache.LocalStorage.prototype.remove:
\* the backend after the removal, and the item handed back.
StorageRemove(kind, st, key) ==
  LET i == IndexOf(st.store, ToPropertyKey(key), 1)
      g == StorageGet(kind, st, key) IN
  [st |-> [store |-> IF i > 0 THEN RemoveAt(st.store, i) ELSE st.store,
           count |-> IF kind = "Basic" /\ g.tag # "undefined"
                     THEN st.count - 1 ELSE st.count],
   got |-> g]

\* keys(): Cache.Basic enumerates its own keys in insertion order;
\* for (key in localStorage) promises no order.
StorageKeys(kind, st) ==
  LET ks == [i \in 1..Len(st.store) |-> st.store[i].key] IN
  IF kind = "Basic" THEN {ks}
  ELSE {Permute(ks, p) : p \in Perms(Len(ks))}

\* Cache.prototype.size: this._storage.size().  Cache.Basic has no size
\* method, so the call is a TypeError there.
Size(kind, st) ==
  IF kind = "Basic" THEN [err |-> TRUE, n |-> 0]
  ELSE [err |-> FALSE, n |-> Len(st.store)]

----------------------------------------------------------------------------
\* The engine.  An engine state is m = [store, count, tasks].

CallbackTask(key, value) == [type |-> "callback", key |-> key, value |-> value]
PurgeTask == [type |-> "purge", key |-> "", value |-> ""]

Backend(m) == [store |-> m.store, count |-> m.count]

\* Cache.prototype._isExpired at clock value t.
IsExpired(item, t) ==
  LET abs == item.options.expirationAbsolute
      sliding == item.options.expirationSliding
      byAbsolute == Truthy(abs) /\ abs.n < t
      lastAccess == item.lastAccessed + (sliding.n * MsPerSecond)
  IN byAbsolute \/ (~byAbsolute /\ Truthy(sliding) /\ lastAccess < t)

\* removeItem clearing the pending timers before it schedules the callback.
RemoveItemCancelsPending(kind, m, key) ==
  LET r == StorageRemove(kind, Backend(m), key)
      g == r.got
      hasCallback == g.tag = "item" /\ g.item.options.callback
      pending == <<>>
  IN [m |-> [store |-> r.st.store, count |-> r.st.count,
             tasks |-> IF hasCallback
                       THEN Append(pending, CallbackTask(g.item.key, g.item.value))
                       ELSE pending],
      ret |-> CASE g.tag = "item" -> g.item.value
                [] g.tag = "function" -> Undefined
                [] OTHER -> Null,
      got |-> g]

\* Cache.prototype.removeItem: the engine state after it, the value it
\* returns, and what storage.remove handed back.
RemoveItemOp(kind, m, key) ==
  LET r == StorageRemove(kind, Backend(m), key)
      g == r.got
      hasCallback == g.tag = "item" /\ g.item.options.callback
  IN [m |-> [store |-> r.st.store, count |-> r.st.count,
             tasks |-> IF hasCallback
                       THEN Append(m.tasks, CallbackTask(g.item.key, g.item.value))
                       ELSE m.tasks],
      ret |-> CASE g.tag = "item" -> g.item.value
                [] g.tag = "function" -> Undefined
                [] OTHER -> Null,
      got |-> g]

\* ToInt32 of the fill factor, the operand the & of line 164 works on.
FillFactorToInt32 == FillNum \div FillDen

\* a & b on non-negative operands; anything & 0 is 0.
RECURSIVE BitAnd(_, _)
BitAnd(a, b) ==
  IF a = 0 \/ b = 0 THEN 0
  ELSE (a % 2) * (b % 2) + 2 * BitAnd(a \div 2, b \div 2)

\* Math.round(num / den) for a non-negative quotient.
Round(num, den) == (2 * num + den) \div (2 * den)

\* The purge target of _purge, in units of 1 / FillDen (it is a fraction when
\* maxSize < 0): [err, q].  err: the size() call threw.
PurgeSizeQ(kind, ms, m) ==
  LET sz == Size(kind, Backend(m)) IN
  IF ms < 0
  THEN [err |-> sz.err, q |-> sz.n * FillNum]
  ELSE [err |-> FALSE, q |-> FillDen * Round(BitAnd(ms, FillFactorToInt32), 1)]

\* The first loop of _purge over the keys ks: expired items are removed,
\* the others collected in tmp.
RECURSIVE PurgeScan(_, _, _, _, _, _)
PurgeScan(kind, m, ks, i, tmp, t) ==
  IF i > Len(ks) THEN [m |-> m, tmp |-> tmp]
  ELSE LET g == StorageGet(kind, Backend(m), ks[i]) IN
       IF IsExpired(g.item, t)
       THEN PurgeScan(kind, RemoveItemOp(kind, m, ks[i]).m, ks, i + 1, tmp, t)
       ELSE PurgeScan(kind, m, ks, i + 1, Append(tmp, g.item), t)

Sign(x) == IF x > 0 THEN 1 ELSE IF x < 0 THEN -1 ELSE 0

\* The comparison function of the sort, by its sign.  A difference with an
\* undefined priority is NaN, which sort reads as 0.
Cmp(a, b) ==
  LET pa == a.options.priority
      pb == b.options.priority
  IN IF pa # pb
     THEN IF pa.tag = "number" /\ pb.tag = "number"
          THEN Sign(pb.n - pa.n) ELSE 0
     ELSE Sign(b.lastAccessed - a.lastAccessed)

\* Array.prototype.sort demands a consistent comparison function: one that
\* is a strict weak ordering of the elements.
Consistent(tmp) ==
  LET I == 1..Len(tmp)
      c(i, j) == Cmp(tmp[i], tmp[j])
  IN /\ \A i \in I : c(i, i) = 0
     /\ \A i, j \in I : c(i, j) = -c(j, i)
     /\ \A i, j, k \in I : (c(i, j) = 0 /\ c(j, k) = 0) => c(i, k) = 0
     /\ \A i, j, k \in I : (c(i, j) < 0 /\ c(j, k) < 0) => c(i, k) < 0

\* What tmp.sort(...) may leave: the stable sort when the comparison
\* function is consistent, an implementation-defined order otherwise.
SortOutcomes(tmp) ==
  LET I == 1..Len(tmp)
      sorted(p) == \A i, j \in I : i < j =>
                      \/ Cmp(tmp[p[i]], tmp[p[j]]) < 0
                      \/ (Cmp(tmp[p[i]], tmp[p[j]]) = 0 /\ p[i] < p[j])
  IN IF Consistent(tmp)
     THEN {Permute(tmp, p) : p \in {q \in Perms(Len(tmp)) : sorted(q)}}
     ELSE {Permute(tmp, p) : p \in Perms(Len(tmp))}

\* The while loop of _purge: pop and remove until tmp fits the target.
RECURSIVE PurgeEvict(_, _, _, _)
PurgeEvict(kind, m, tmp, q) ==
  IF FillDen * Len(tmp) > q
  THEN The({ PurgeEvict(kind, removed.m, SubSeq(tmp, 1, Len(tmp) - 1), q)
               : removed \in {RemoveItemOp(kind, m, tmp[Len(tmp)].key)} })
  ELSE [m |-> m, tmp |-> tmp]

NoPurge == <<>>

\* _purge from the scan on, the keys enumerated as ks, the target q.
PurgePass(kind, m, ks, q, t) ==
  LET record(scan, ev) ==
        [m |-> ev.m, err |-> FALSE,
         info |-> <<[before |-> m.store, after |-> ev.m.store,
                     q |-> q, live |-> scan.tmp, kept |-> ev.tmp,
                     at |-> t]>>]
      evictions(scan) ==
        IF FillDen * Len(scan.tmp) > q
        THEN {PurgeEvict(kind, scan.m, sorted, q)
                : sorted \in SortOutcomes(scan.tmp)}
        ELSE {scan}
  IN UNION { {record(scan, ev) : ev \in evictions(scan)}
               : scan \in {PurgeScan(kind, m, ks, 1, <<>>, t)} }

\* Cache.prototype._purge at clock value t: every outcome it can have.
\* An outcome is the engine state after it, whether it threw, and a record
\* of the pass: the store before and after, the target, the candidates.
PurgeOutcomes(kind, ms, m, t) ==
  LET target == PurgeSizeQ(kind, ms, m) IN
  IF target.err
  THEN {[m |-> m, err |-> TRUE, info |-> NoPurge]}
  ELSE UNION {PurgePass(kind, m, ks, target.q, t)
                : ks \in StorageKeys(kind, Backend(m))}

----------------------------------------------------------------------------
\* Cache.CacheItem: the error it throws ("none" when it returns), the item
\* it builds, and the caller's options object as the constructor leaves it.
CacheItem(key, val, options, t) ==
  LET abs == options.expirationAbsolute
      converted == IF Truthy(abs) THEN [options EXCEPT !.expirationAbsolute = Num(abs.n)]
                   ELSE options
      \* Cache.Priority.NORMAL is not a member of Cache.Priority: undefined
      defaulted == IF ~Truthy(converted.priority)
                   THEN [converted EXCEPT !.priority = Undef]
                   ELSE converted
  IN IF ~TruthyKey(key)
     THEN [err |-> "InvalidKey", item |-> NoItem, options |-> options]
     ELSE IF Truthy(abs) /\ abs.tag # "Date"
     \* a number has no getTime method
     THEN [err |-> "TypeError", item |-> NoItem, options |-> options]
     ELSE [err |-> "none",
           item |-> [key |-> key, value |-> val, options |-> defaulted,
                     lastAccessed |-> t],
           options |-> defaulted]

\* _addItem with the catch block retrying at once: no this._purge() before
\* the second storage.set.
AddItemRetriesWithoutPurge(kind, ms, m, item, fail1, fail2, t) ==
  LET st == StorageSet(kind, Backend(m), item)
      stored == [m EXCEPT !.store = st.store, !.count = st.count]
  IN IF ~fail1
     THEN {[m |-> stored, err |-> "none", attempts |-> 1, purge |-> NoPurge]}
     ELSE IF fail2
     THEN {[m |-> m, err |-> "QuotaExceeded", attempts |-> 2, purge |-> NoPurge]}
     ELSE {[m |-> stored, err |-> "none", attempts |-> 2, purge |-> NoPurge]}

\* Cache.prototype._addItem(item): fail1 and fail2 say whether the first and
\* the second storage.set throw.  Every outcome: the engine state, the error
\* propagated, the number of set attempts, the purge pass it ran.
AddItemOutcomes(kind, ms, m, item, fail1, fail2, t) ==
  LET stored(mm) == LET st == StorageSet(kind, Backend(mm), item) IN
                    [mm EXCEPT !.store = st.store, !.count = st.count]
  IN IF ~fail1
     THEN {[m |-> stored(m), err |-> "none", attempts |-> 1, purge |-> NoPurge]}
     ELSE { IF po.err
            THEN [m |-> po.m, err |-> "TypeError", attempts |-> 1,
                  purge |-> po.info]
            ELSE IF fail2
            THEN [m |-> po.m, err |-> "QuotaExceeded", attempts |-> 2,
                  purge |-> po.info]
            ELSE [m |-> stored(po.m), err |-> "none", attempts |-> 2,
                  purge |-> po.info]
            : po \in PurgeOutcomes(kind, ms, m, t) }

\* The capacity test without its (this._maxSize > 0) conjunct.
CapacityTestUnguarded(kind, ms, st) ==
  LET sz == Size(kind, st) IN
  [err |-> sz.err, over |-> ~sz.err /\ sz.n > ms]

\* The capacity test of setItem, (this._maxSize > 0) && (this.size() >
\* this._maxSize): whether size() threw, and whether a purge is to be
\* scheduled.  size() is only called when maxSize > 0.
CapacityTest(kind, ms, st) ==
  LET sz == Size(kind, st) IN
  IF ms > 0 THEN [err |-> sz.err, over |-> ~sz.err /\ sz.n > ms]
  ELSE [err |-> FALSE, over |-> FALSE]

\* Cache.prototype.setItem: every outcome of the whole call.
SetItemOutcomes(kind, ms, m, key, value, options, fail1, fail2, t) ==
  LET g == StorageGet(kind, Backend(m), key)
      rm == IF NotNull(g) THEN RemoveItemOp(kind, m, key).m ELSE m
      removed == IF g.tag = "item" THEN <<g.item>> ELSE <<>>
      ci == CacheItem(key, value, options, t)
      finish(a) ==
        LET full == CapacityTest(kind, ms, Backend(a.m))
            base == [m |-> a.m, err |-> a.err, options |-> ci.options,
                     attempts |-> a.attempts, purge |-> a.purge,
                     removed |-> removed]
        IN IF a.err # "none" THEN base
           ELSE IF full.err THEN [base EXCEPT !.err = "TypeError"]
           ELSE IF full.over
           THEN [base EXCEPT !.m.tasks = Append(a.m.tasks, PurgeTask)]
           ELSE base
  IN IF ci.err # "none"
     THEN {[m |-> rm, err |-> ci.err, options |-> ci.options, attempts |-> 0,
            purge |-> NoPurge, removed |-> removed]}
     ELSE {finish(a) : a \in AddItemOutcomes(kind, ms, rm, ci.item, fail1, fail2, t)}

\* Cache.prototype.getItem: the outcome of the whole call.
GetItemOutcome(kind, m, h, mi, key, t) ==
  LET g == StorageGet(kind, Backend(m), key)
      i == IndexOf(m.store, key, 1)
      expired == IsExpired(g.item, t)
      \* item.lastAccessed = now changes the stored record only when get
      \* handed out the record itself
      touched == IF kind = "Basic"
                 THEN [m EXCEPT !.store[i].lastAccessed = t] ELSE m
      returnItem == IF g.tag = "item" /\ ~expired THEN g.item.value ELSE Null
      hit == g.tag = "item" /\ ~expired /\ TruthyStr(g.item.value)
  IN IF g.tag = "function"
     \* _isExpired reads item.options.expirationAbsolute of a function
     THEN [m |-> m, err |-> "TypeError", ret |-> Undefined, hits |-> h,
           misses |-> mi]
     ELSE [m |-> IF g.tag # "item" THEN m
                 ELSE IF expired THEN RemoveItemOp(kind, m, key).m
                 ELSE touched,
           err |-> "none", ret |-> returnItem,
           hits |-> IF hit THEN h + 1 ELSE h,
           misses |-> IF hit THEN mi ELSE mi + 1]

\* The loop of clear with the bound i < max - 1: the last key is left.
RECURSIVE ClearLoopSkipsLast(_, _, _, _)
ClearLoopSkipsLast(kind, m, ks, i) ==
  IF i >= Len(ks) THEN m
  ELSE ClearLoopSkipsLast(kind, RemoveItemOp(kind, m, ks[i]).m, ks, i + 1)

\* Cache.prototype.clear over the keys ks.
RECURSIVE ClearLoop(_, _, _, _)
ClearLoop(kind, m, ks, i) ==
  IF i > Len(ks) THEN m
  ELSE ClearLoop(kind, RemoveItemOp(kind, m, ks[i]).m, ks, i + 1)

\* Cache.prototype.getStats
GetStats == [hits |-> hits, misses |-> misses]

----------------------------------------------------------------------------
\* The inputs the callers draw from.
Opt(abs, sliding, priority, callback) ==
  [expirationAbsolute |-> abs, expirationSliding |-> sliding,
   priority |-> priority, callback |-> callback]

\* The options object the caller keeps, as it is before its first use.
SharedInit == Opt(DateObj(StartTime + TickMs), Undef, Undef, TRUE)

\* An options argument of setItem: a fresh literal o, or the kept object.
Literal(o) == [shared |-> FALSE, o |-> o]
Shared == [shared |-> TRUE, o |-> NoOptions]

EngineState == [store |-> store, count |-> count, tasks |-> tasks]

Scheduled(m) == SubSeq(m.tasks, Len(tasks) + 1, Len(m.tasks))

OpRecord(op, key, value, ret, err, sched, attempts, removed, purge) ==
  [op |-> op, key |-> key, value |-> value, opts |-> NoOptions,
   fail |-> <<FALSE, FALSE>>, ret |-> ret,
   err |-> err, scheduled |-> sched, attempts |-> attempts,
   removed |-> removed, purge |-> purge]

\* new Cache(maxSize, debug, storage): this._maxSize = maxSize || -1
Construct(arg) == IF arg = 0 THEN -1 ELSE arg

InitOver(kinds, args) ==
  /\ storageKind \in kinds
  /\ maxSizeArg \in args
  /\ maxSize = Construct(maxSizeArg)
  /\ store = <<>>
  /\ count = 0
  /\ hits = 0
  /\ misses = 0
  /\ tasks = <<>>
  /\ now = StartTime
  /\ sharedOpts = SharedInit
  /\ calls = 0
  /\ nops = 0
  /\ lastOp = OpRecord("new", "", "", Null, "none", <<>>, 0, <<>>, NoPurge)

\* cache.setItem(key, value, options)
SetItem(key, value, ref, fail1, fail2) ==
  /\ nops < MaxOps
  /\ fail2 => fail1
  /\ fail1 => storageKind = "LocalStorage"
  /\ LET options == IF ref.shared THEN sharedOpts ELSE ref.o IN
     \E out \in SetItemOutcomes(storageKind, maxSize, EngineState, key, value,
                                options, fail1, fail2, now) :
       /\ store' = out.m.store
       /\ count' = out.m.count
       /\ tasks' = out.m.tasks
       /\ sharedOpts' = IF ref.shared THEN out.options ELSE sharedOpts
       /\ lastOp' = [OpRecord("setItem", key, value, Null, out.err,
                              Scheduled(out.m), out.attempts, out.removed,
                              out.purge) EXCEPT !.opts = options,
                                                !.fail = <<fail1, fail2>>]
  /\ nops' = nops + 1
  /\ UNCHANGED <<storageKind, maxSizeArg, maxSize, hits, misses, now, calls>>

\* cache.getItem(key)
GetItem(key) ==
  /\ nops < MaxOps
  /\ LET out == GetItemOutcome(storageKind, EngineState, hits, misses, key, now) IN
       /\ store' = out.m.store
       /\ count' = out.m.count
       /\ tasks' = out.m.tasks
       /\ hits' = out.hits
       /\ misses' = out.misses
       /\ lastOp' = OpRecord("getItem", key, "", out.ret, out.err,
                             Scheduled(out.m), 0, <<>>, NoPurge)
  /\ calls' = calls + 1
  /\ nops' = nops + 1
  /\ UNCHANGED <<storageKind, maxSizeArg, maxSize, now, sharedOpts>>

\* cache.removeItem(key)
RemoveItem(key) ==
  /\ nops < MaxOps
  /\ LET out == RemoveItemOp(storageKind, EngineState, key) IN
       /\ store' = out.m.store
       /\ count' = out.m.count
       /\ tasks' = out.m.tasks
       /\ lastOp' = OpRecord("removeItem", key, "", out.ret, "none",
                             Scheduled(out.m), 0,
                             IF out.got.tag = "item" THEN <<out.got.item>> ELSE <<>>,
                             NoPurge)
  /\ nops' = nops + 1
  /\ UNCHANGED <<storageKind, maxSizeArg, maxSize, hits, misses, now,
                 sharedOpts, calls>>

\* cache.clear()
Clear ==
  /\ nops < MaxOps
  /\ \E ks \in StorageKeys(storageKind, [store |-> store, count |-> count]) :
       LET m == ClearLoop(storageKind, EngineState, ks, 1) IN
         /\ store' = m.store
         /\ count' = m.count
         /\ tasks' = m.tasks
         /\ lastOp' = OpRecord("clear", "", "", Undefined, "none",
                               Scheduled(m), 0, store, NoPurge)
  /\ nops' = nops + 1
  /\ UNCHANGED <<storageKind, maxSizeArg, maxSize, hits, misses, now,
                 sharedOpts, calls>>

\* The timer queue runs its oldest task: the purge setItem deferred, or a
\* removal callback.
RunTask ==
  /\ tasks # <<>>
  /\ LET task == Head(tasks)
         rest == [store |-> store, count |-> count, tasks |-> Tail(tasks)]
     IN IF task.type = "purge"
        THEN \E po \in PurgeOutcomes(storageKind, maxSize, rest, now) :
               /\ store' = po.m.store
               /\ count' = po.m.count
               /\ tasks' = po.m.tasks
               /\ lastOp' = OpRecord("purge", "", "", Undefined,
                                     IF po.err THEN "TypeError" ELSE "none",
                                     SubSeq(po.m.tasks, Len(tasks), Len(po.m.tasks)),
                                     0, <<>>, po.info)
        ELSE /\ tasks' = Tail(tasks)
             /\ lastOp' = OpRecord("callback", task.key, task.value,
                                   Undefined, "none", <<>>, 0, <<>>, NoPurge)
             /\ UNCHANGED <<store, count>>
  /\ UNCHANGED <<storageKind, maxSizeArg, maxSize, hits, misses, now,
                 sharedOpts, calls, nops>>

\* Time passes between two calls.
Tick ==
  /\ now + TickMs <= MaxTime
  /\ now' = now + TickMs
  /\ UNCHANGED <<storageKind, maxSizeArg, maxSize, store, count, hits, misses,
                 tasks, sharedOpts, calls, nops, lastOp>>

----------------------------------------------------------------------------
\* The calls of the interface on both backends: an ordinary key, a key that
\* Object.prototype also has, the empty key; a truthy and a falsy value;
\* no options, a callback with an expiration at the epoch, the kept object.
Keys == {"a", "toString", ""}
Values == {"x", ""}
OptionRefs ==
  { Literal(NoOptions),
    Literal(Opt(DateObj(0), Undef, Undef, TRUE)),
    Shared }

Init == InitOver({"Basic", "LocalStorage"}, {0, 1})

Next ==
  \/ \E key \in Keys, value \in Values, ref \in OptionRefs :
       SetItem(key, value, ref, FALSE, FALSE)
  \/ \E key \in Keys : GetItem(key)
  \/ \E key \in Keys : RemoveItem(key)
  \/ Clear
  \/ RunTask
  \/ Tick

Spec == Init /\ [][Next]_vars

\* Capacity and purge on the backend that has a size(): three keys; items
\* with the default priority, with the Low priority and a sliding expiration
\* of one second, with the High priority and an expiration at the epoch;
\* a storage.set may throw.
PurgeKeys == {"a", "b", "c"}
PurgeOptionRefs ==
  { Literal(NoOptions),
    Literal(Opt(Undef, Num(1), Num(Low), FALSE)),
    Literal(Opt(DateObj(0), Undef, Num(High), FALSE)) }

InitPurge == InitOver({"LocalStorage"}, {-1, 0, 2})

NextPurge ==
  \/ \E key \in PurgeKeys, ref \in PurgeOptionRefs,
        fail1 \in BOOLEAN, fail2 \in BOOLEAN :
       SetItem(key, "x", ref, fail1, fail2)
  \/ \E key \in PurgeKeys : GetItem(key)
  \/ \E key \in PurgeKeys : RemoveItem(key)
  \/ Clear
  \/ RunTask
  \/ Tick

SpecPurge == InitPurge /\ [][NextPurge]_vars

\* The timer queue is served: a task scheduled by setTimeout(f, 0) runs once
\* the call that scheduled it has returned, and nothing but its running
\* takes it off the queue.
FairKeys == {"a", "b"}
FairOptionRefs ==
  { Literal(NoOptions),
    Literal(Opt(Undef, Undef, Undef, TRUE)) }

InitFair == InitOver({"Basic", "LocalStorage"}, {0, 1})

NextFair ==
  \/ \E key \in FairKeys, ref \in FairOptionRefs :
       SetItem(key, "x", ref, FALSE, FALSE)
  \/ \E key \in FairKeys : GetItem(key)
  \/ \E key \in FairKeys : RemoveItem(key)
  \/ Clear
  \/ RunTask
  \/ Tick

SpecFair == InitFair /\ [][NextFair]_vars /\ WF_vars(RunTask)

\* The keys that are not usable: the empty string and null, next to the
\* string "null"; items with and without a callback.
KeyArgs == {"null", NullKey, ""}
KeyOptionRefs ==
  { Literal(NoOptions),
    Literal(Opt(Undef, Undef, Undef, TRUE)) }

InitKeys == InitOver({"Basic", "LocalStorage"}, {0})

NextKeys ==
  \/ \E key \in KeyArgs, ref \in KeyOptionRefs :
       SetItem(key, "x", ref, FALSE, FALSE)
  \/ \E key \in KeyArgs : GetItem(key)
  \/ \E key \in KeyArgs : RemoveItem(key)
  \/ Clear
  \/ RunTask
  \/ Tick

SpecKeys == InitKeys /\ [][NextKeys]_vars

----------------------------------------------------------------------------
\* What the claims speak of.

\* The item the backend holds under key, as a sequence of zero or one record.
Stored(s, key) ==
  LET i == IndexOf(s, key, 1) IN IF i > 0 THEN <<s[i]>> ELSE <<>>

\* The step is a call of op on key.
Calls(op, key) == nops' = nops + 1 /\ lastOp'.op = op /\ lastOp'.key = key

CallbacksOf(sched) == SelectSeq(sched, LAMBDA task : task.type = "callback")

\* Section 4.3 of the specification: expired at time t.
ExpiredByPolicy(item, t) ==
  LET abs == item.options.expirationAbsolute
      sliding == item.options.expirationSliding
  IN \/ abs.tag # "undefined" /\ abs.n < t
     \/ sliding.tag # "undefined"
          /\ item.lastAccessed + sliding.n * MsPerSecond < t

\* C1: a getItem(k) that directly follows a setItem(k, v) made with no
\* expiration options returns v, increments hits by one and leaves misses
\* unchanged, for every storable v, the falsy ones included.
C1_GetAfterSetIsHit ==
  [][ \A key \in Keys \ {""} :
        ( /\ lastOp.op = "setItem" /\ lastOp.key = key
          /\ lastOp.opts.expirationAbsolute = Undef
          /\ lastOp.opts.expirationSliding = Undef
          /\ Stored(store, key) # <<>>
          /\ Calls("getItem", key) )
        => ( /\ lastOp'.err = "none"
             /\ lastOp'.ret = lastOp.value
             /\ hits' = hits + 1
             /\ misses' = misses ) ]_vars

\* C2: every getItem call increments exactly one of hits and misses by
\* exactly one, neither counter ever decreases, hits + misses is the number
\* of getItem calls, and getStats() reports the two counters.
C2_EveryGetCountsOnce ==
  [][ /\ hits' >= hits /\ misses' >= misses
      /\ calls' = calls + 1
           => ( \/ hits' = hits + 1 /\ misses' = misses
                \/ hits' = hits /\ misses' = misses + 1 )
      /\ calls' = calls => (hits' = hits /\ misses' = misses)
      /\ hits' + misses' = calls'
      /\ GetStats' = [hits |-> hits', misses |-> misses'] ]_vars

\* C3: an item inserted with an expirationAbsolute instant that is in the
\* past at insertion time is reported absent by the very next getItem on its
\* key, which counts a miss, removes the item and schedules its callback.
C3_PastAbsoluteExpiresOnRead ==
  [][ \A key \in Keys \ {""} :
        ( /\ lastOp.op = "setItem" /\ lastOp.key = key
          /\ Stored(store, key) # <<>>
          /\ lastOp.opts.expirationAbsolute.tag = "Date"
          /\ lastOp.opts.expirationAbsolute.n < Stored(store, key)[1].lastAccessed
          /\ Calls("getItem", key) )
        => ( /\ lastOp'.ret = Null
             /\ misses' = misses + 1
             /\ hits' = hits
             /\ Stored(store', key) = <<>>
             /\ Stored(store, key)[1].options.callback
                  => tasks' = Append(tasks, CallbackTask(key, lastOp.value)) ) ]_vars

\* C4: setItem(k, v1, o1) followed by setItem(k, v2, o2) fires exactly one
\* removal callback, that of o1 with (k, v1), if o1 has one, and none
\* otherwise; it leaves exactly one item under k, and a following getItem(k)
\* returns v2 (the new item not being expired).
C4_OverwriteFiresOneCallback ==
  [][ \A key \in Keys \ {""} :
        ( /\ lastOp.op = "setItem" /\ lastOp.key = key /\ lastOp.err = "none"
          /\ Calls("setItem", key) )
        => ( /\ CallbacksOf(lastOp'.scheduled)
                  = IF lastOp.opts.callback
                    THEN <<CallbackTask(key, lastOp.value)>> ELSE <<>>
             /\ Len(SelectSeq(store', LAMBDA item : item.key = key)) = 1
             /\ \A item \in {Stored(store', key)[i] : i \in 1..Len(Stored(store', key))} :
                  ~ExpiredByPolicy(item, now')
                    => GetItemOutcome(storageKind,
                                      [store |-> store', count |-> count',
                                       tasks |-> tasks'],
                                      hits', misses', key, now').ret = lastOp'.value ) ]_vars

Items(seq) == {seq[i] : i \in 1..Len(seq)}

Purged == lastOp.purge # NoPurge
Pass == lastOp.purge[1]
Evicted(p) == {x \in Items(p.live) : x \notin Items(p.kept)}

\* C6: after any purge completes, the backend holds at most purgeSize
\* items and no item that is expired at the time of the purge.
C6_PurgeLeavesFewAndFresh ==
  Purged =>
    /\ FillDen * Len(Pass.after) <= Pass.q
    /\ \A item \in Items(Pass.after) : ~ExpiredByPolicy(item, Pass.at)

\* C7: with maxSize > 0 the purge target is round(maxSize * 0.75), a purge
\* that starts with more live items evicts down to exactly the target, and
\* with maxSize = 2 and "a", "b", "c" inserted in that order the deferred
\* purge leaves exactly two keys and evicts "a".
C7_TargetIsThreeQuarters ==
  (Purged /\ maxSize > 0) =>
    LET target == Round(maxSize * FillNum, FillDen) IN
      /\ Pass.q = FillDen * target
      /\ Len(Pass.live) > target => Len(Pass.after) = target
      /\ ( /\ lastOp.op = "purge" /\ maxSize = 2
           /\ [i \in 1..Len(Pass.before) |-> Pass.before[i].key] = <<"a", "b", "c">>
           /\ \A i \in 1..Len(Pass.before) :
                /\ Pass.before[i].options.expirationAbsolute = Undef
                /\ Pass.before[i].options.expirationSliding = Undef
                /\ Pass.before[i].options.priority \in {Undef, Num(Normal)}
           /\ \A i, j \in 1..Len(Pass.before) :
                i < j => Pass.before[i].lastAccessed < Pass.before[j].lastAccessed )
         => ( /\ Len(Pass.after) = 2
              /\ Stored(Pass.after, "a") = <<>> )

\* The priority an item has by the specification: the one given, Normal
\* when none was given.
PriorityBySpec(item) ==
  IF item.options.priority.tag = "number" THEN item.options.priority.n
  ELSE Normal

Live(p) == {x \in Items(p.live) : ~ExpiredByPolicy(x, p.at)}

\* C8: whenever a purge evicts a live item x and keeps a live item y,
\* x.priority < y.priority, or the priorities are equal and
\* x.lastAccessed <= y.lastAccessed.
C8_EvictsLowestPriorityFirst ==
  Purged =>
    \A x \in Live(Pass) \cap Evicted(Pass), y \in Live(Pass) \cap Items(Pass.kept) :
      \/ PriorityBySpec(x) < PriorityBySpec(y)
      \/ /\ PriorityBySpec(x) = PriorityBySpec(y)
         /\ x.lastAccessed <= y.lastAccessed

\* C9: an item stored by setItem without a priority option has priority
\* Normal: its stored options.priority is 2, and a purge evicts it after
\* every Low item and before every High item.
C9_DefaultPriorityIsNormal ==
  /\ ( /\ lastOp.op = "setItem"
       /\ lastOp.opts.priority = Undef
       /\ Stored(store, lastOp.key) # <<>> )
     => Stored(store, lastOp.key)[1].options.priority = Num(Normal)
  /\ Purged =>
       \A x \in Live(Pass) \cap Evicted(Pass), y \in Live(Pass) \cap Items(Pass.kept) :
         /\ ~(x.options.priority = Undef /\ y.options.priority = Num(Low))
         /\ ~(x.options.priority = Num(High) /\ y.options.priority = Undef)

\* C10: a cache constructed with maxSize <= 0 never schedules or runs the
\* capacity purge, and a setItem whose insertion succeeds evicts nothing:
\* it runs no purge pass and removes at most the old item under its own key.
C10_UnlimitedNeverPurges ==
  maxSizeArg <= 0 =>
    /\ \A i \in 1..Len(tasks) : tasks[i].type # "purge"
    /\ lastOp.op # "purge"
    /\ (lastOp.op = "setItem" /\ lastOp.attempts = 1) =>
         /\ ~Purged
         /\ \A i \in 1..Len(lastOp.scheduled) : lastOp.scheduled[i].type # "purge"
         /\ \A item \in Items(lastOp.removed) : item.key = lastOp.key

\* An unlimited cache that holds three items after a setItem that succeeded.
C10_Witness ==
  /\ maxSizeArg = 0
  /\ lastOp.op = "setItem" /\ lastOp.attempts = 1 /\ lastOp.err = "none"
  /\ Len(store) = 3

\* C11: within one setItem call storage.set is attempted at most twice.  When
\* the first attempt succeeds there is no purge and no retry; when it fails,
\* exactly one purge pass runs, over the backend as the failure left it, and
\* then exactly one retry is made; when the retry fails too the failure
\* reaches the caller of setItem, and nothing more is purged or retried.
C11_PurgeOnceRetryOnce ==
  [][ \A key \in PurgeKeys :
        Calls("setItem", key) =>
          LET fail1 == lastOp'.fail[1]
              fail2 == lastOp'.fail[2]
              kept == SelectSeq(store, LAMBDA item : item.key # key)
          IN /\ lastOp'.attempts \in {1, 2}
             /\ ~fail1 => ( /\ lastOp'.attempts = 1
                            /\ lastOp'.purge = NoPurge
                            /\ lastOp'.err = "none" )
             /\ fail1 => ( /\ lastOp'.attempts = 2
                           /\ Len(lastOp'.purge) = 1
                           /\ lastOp'.purge[1].before = kept )
             /\ (fail1 /\ fail2) => ( /\ lastOp'.err = "QuotaExceeded"
                                      /\ store' = lastOp'.purge[1].after )
             /\ (fail1 /\ ~fail2) => ( /\ lastOp'.err = "none"
                                       /\ Stored(store', key) # <<>> ) ]_vars

\* A setItem whose two storage.set calls both threw, after a purge pass over
\* a backend that held two items.
C11_Witness ==
  /\ lastOp.op = "setItem"
  /\ lastOp.attempts = 2
  /\ lastOp.err = "QuotaExceeded"
  /\ Purged
  /\ Len(Pass.before) = 2

\* C12: a setItem call whose key is empty or null fails with the invalid-key
\* error and leaves the items of the backend and the scheduled callbacks and
\* purges exactly as they were before the call.
C12_InvalidKeyLeavesNoTrace ==
  [][ \A key \in {"", NullKey} :
        Calls("setItem", key) =>
          /\ lastOp'.err = "InvalidKey"
          /\ store' = store
          /\ tasks' = tasks ]_vars

\* C13: only an invalid key and a double insertion failure surface as
\* errors.  getItem, removeItem and clear never raise one, whatever the key,
\* and for every maxSize and on the in-memory backend too a setItem with a
\* usable key whose insertion succeeded returns normally.
C13_OnlyKeyAndInsertionErrors ==
  /\ lastOp.op \in {"getItem", "removeItem", "clear"} => lastOp.err = "none"
  /\ lastOp.err # "none" => lastOp.err \in {"InvalidKey", "QuotaExceeded"}
  /\ ( /\ lastOp.op = "setItem"
       /\ TruthyKey(lastOp.key)
       /\ lastOp.attempts >= 1
       /\ lastOp.err # "QuotaExceeded" )
     => lastOp.err = "none"

PurgeTasksOf(sched) == SelectSeq(sched, LAMBDA task : task.type = "purge")

\* C14: when a setItem that leaves more than maxSize (> 0) items in the
\* backend returns, it has run no purge pass, the new item and every item
\* stored before under another key are in the backend, and the call has
\* scheduled exactly one purge task.
C14_PurgeIsDeferred ==
  [][ \A key \in Keys \cup PurgeKeys :
        ( /\ Calls("setItem", key)
          /\ maxSize > 0
          /\ lastOp'.attempts >= 1
          /\ lastOp'.err # "QuotaExceeded"
          /\ Len(store') > maxSize )
        => ( /\ lastOp'.err = "none"
             /\ lastOp'.purge = NoPurge
             /\ Stored(store', key) # <<>>
             /\ \A item \in Items(store) :
                  item.key # key => item \in Items(store')
             /\ PurgeTasksOf(lastOp'.scheduled) = <<PurgeTask>> ) ]_vars

\* C15: no cache operation (getItem, setItem, removeItem, clear) executes
\* while a scheduled purge is still pending.
C15_NoCallWhilePurgePending ==
  [][ nops' = nops + 1 => PurgeTasksOf(tasks) = <<>> ]_vars

\* The step is the timer queue running a task of the given type.
Runs(type) == nops' = nops /\ now' = now /\ lastOp'.op = type

\* The items a step takes out of the backend: those whose key is gone, and
\* the one a setItem replaced.
Left == {item \in Items(store) : Stored(store', item.key) = <<>>}
          \cup Items(lastOp'.removed)

\* C16: the callback of an item that carries one is scheduled exactly when
\* the item leaves the backend, once and with the item's (key, value); in
\* particular a removeItem(k) that follows a setItem(k, v, {callback})
\* schedules it.  A callback never runs inside a cache operation, and a
\* scheduled callback is invoked once, with that key and value.
C16_CallbackOncePerRemoval ==
  [][ /\ \A key \in Keys \ {""} :
           ( /\ lastOp.op = "setItem" /\ lastOp.key = key
             /\ lastOp.err = "none"
             /\ lastOp.opts.callback
             /\ Calls("removeItem", key) )
           => CallbacksOf(lastOp'.scheduled) = <<CallbackTask(key, lastOp.value)>>
      /\ (nops' = nops + 1 \/ Runs("purge")) =>
           /\ Len(CallbacksOf(lastOp'.scheduled))
                = Cardinality({item \in Left : item.options.callback})
           /\ \A item \in Left :
                item.options.callback =>
                  \E i \in 1..Len(lastOp'.scheduled) :
                    lastOp'.scheduled[i] = CallbackTask(item.key, item.value)
      /\ nops' = nops + 1 =>
           /\ Len(tasks') >= Len(tasks)
           /\ SubSeq(tasks', 1, Len(tasks)) = tasks
      /\ Runs("callback") =>
           /\ tasks # <<>>
           /\ Head(tasks) = CallbackTask(lastOp'.key, lastOp'.value)
           /\ tasks' = Tail(tasks)
           /\ store' = store ]_vars

\* C17: no cache operation cancels, replaces or drops a scheduled task: a
\* step leaves the timer queue as it was, appends to it, or runs its oldest
\* task.  Under fair service of the queue every scheduled purge and every
\* scheduled callback eventually runs.
C17_ScheduledTasksRun ==
  /\ [][ \/ /\ Len(tasks') >= Len(tasks)
            /\ SubSeq(tasks', 1, Len(tasks)) = tasks
         \/ /\ tasks # <<>>
            /\ lastOp'.op = Head(tasks).type
            /\ Len(tasks') >= Len(tasks) - 1
            /\ SubSeq(tasks', 1, Len(tasks) - 1) = Tail(tasks) ]_vars
  /\ (PurgeTasksOf(tasks) # <<>>) ~> (lastOp.op = "purge")
  /\ \A key \in FairKeys :
       (\E i \in 1..Len(tasks) : tasks[i] = CallbackTask(key, "x"))
         ~> (lastOp.op = "callback" /\ lastOp.key = key /\ lastOp.value = "x")

\* A purge that ran although the backend no longer held more than maxSize
\* items, and a callback that ran although its key is stored again.
C17_Witness ==
  \/ /\ lastOp.op = "purge"
     /\ maxSize > 0
     /\ Len(Pass.before) <= maxSize
  \/ /\ lastOp.op = "callback"
     /\ Stored(store, lastOp.key) # <<>>

\* The values the clock takes.
Times == {StartTime + k * TickMs : k \in 0..MaxTicks}

\* C18: for every stored item and every time now the expiration check
\* reports the item expired exactly when expirationAbsolute is set and
\* before now, or expirationSliding is set and lastAccessed plus that many
\* seconds is before now; both comparisons are strict, and an item with
\* neither option never expires.
C18_ExpiredIffPolicy ==
  \A item \in Items(store), t \in Times :
    IsExpired(item, t) <=> ExpiredByPolicy(item, t)

\* C19: after a getItem(k) that finds a non-expired item at time t the
\* record the backend holds under k has lastAccessed = t, on either backend.
C19_ReadTouchesStoredRecord ==
  [][ \A key \in Keys \ {""} :
        ( /\ Calls("getItem", key)
          /\ Stored(store, key) # <<>>
          /\ \A item \in Items(Stored(store, key)) :
               ~ExpiredByPolicy(item, now') )
        => ( /\ Stored(store', key) # <<>>
             /\ \A item \in Items(Stored(store', key)) :
                  item.lastAccessed = now' ) ]_vars

\* C20: setItem leaves the options object of its caller as it was, and a
\* call that is passed the kept options object, which carries an
\* expirationAbsolute, gets as far as the insertion (it does not fail with
\* the old item under the key already removed) and stores the item with the
\* instant the object was made with.
C20_OptionsObjectUntouched ==
  [][ /\ sharedOpts' = sharedOpts
      /\ \A key \in Keys \ {""} :
           (Calls("setItem", key) /\ lastOp'.opts = sharedOpts)
           => ( /\ lastOp'.attempts >= 1
                /\ \A item \in Items(Stored(store', key)) :
                     item.options.expirationAbsolute.n
                       = SharedInit.expirationAbsolute.n ) ]_vars

====
